---- MODULE Spec2Model ----
(***************************************************************************)
(* The AEAD host calls of wasi-common (hostcalls_impl/crypto.rs), the      *)
(* cipher-session registry they use, the guest-memory marshalling layer    *)
(* they go through, and the resource table and context builder of wasi-c2  *)
(* (ctx.rs).                                                               *)
(*                                                                         *)
(* Guest memory is an array of bytes 0..255.  Every host call is one       *)
(* atomic action (the layer is synchronous and non-reentrant).             *)
(***************************************************************************)
EXTENDS Integers, Sequences, FiniteSets, TLC

(***************************************************************************)
(* Bounds of the model.                                                    *)
(***************************************************************************)
\* size of the guest linear memory, in bytes
MemSize == 160
\* largest representable AEAD handle (u32::MAX in the code)
MaxAead == 1
\* largest representable handle of the wasi-c2 table (u32::MAX in the code)
MaxFd == 3
\* number of host calls in one behaviour
MaxCalls == 3
\* number of guest stores in one behaviour
MaxStores == 1

(***************************************************************************)
(* Error codes (crate::Error).                                             *)
(***************************************************************************)
ESUCCESS == "ESUCCESS"
EBADF    == "EBADF"      \* invalid-handle
EINVAL   == "EINVAL"     \* invalid-argument
ENOTSUP  == "ENOTSUP"    \* not-supported
ENOSYS   == "ENOSYS"     \* not-implemented
EILSEQ   == "EILSEQ"     \* malformed-sequence
EFAULT   == "EFAULT"     \* out-of-bounds
EMFILE   == "EMFILE"     \* table-exhausted

(***************************************************************************)
(* IMPLEMENTED_CIPHERS: the registered algorithms and their CipherSpec.    *)
(***************************************************************************)
A128GCM_key_size   == 16
A128GCM_block_size == 16
A128GCM_nonce_size == 12
A128GCM_tag_size   == 16

\* "A128GCM" and "A256GCM" as UTF-8 bytes
NameA128GCM == <<65, 49, 50, 56, 71, 67, 77>>
NameA256GCM == <<65, 50, 53, 54, 71, 67, 77>>

CipherSpecA128GCM ==
    [key_size   |-> A128GCM_key_size,
     block_size |-> A128GCM_block_size,
     nonce_size |-> A128GCM_nonce_size,
     tag_size   |-> A128GCM_tag_size]

IMPLEMENTED_CIPHERS ==
    << [name |-> NameA128GCM, constructor |-> "aes_128_gcm", spec |-> CipherSpecA128GCM] >>

\* a lookup that compares the length of the name only
FindCipher_lenonly(algorithm) ==
    { i \in 1..Len(IMPLEMENTED_CIPHERS) : Len(IMPLEMENTED_CIPHERS[i].name) = Len(algorithm) }

\* IMPLEMENTED_CIPHERS.iter().find(|x| x.name == algorithm): the indices that match
FindCipher(algorithm) ==
    { i \in 1..Len(IMPLEMENTED_CIPHERS) : IMPLEMENTED_CIPHERS[i].name = algorithm }

\* a session that records half the key length it was given
CipherEntryNew_halfkey(cipher, key_ptr, key_len, spec) ==
    [cipher |-> cipher, key_ptr |-> key_ptr, key_len |-> key_len \div 2, spec |-> spec]

\* a session that records the location one byte after the key
CipherEntryNew_shift(cipher, key_ptr, key_len, spec) ==
    [cipher |-> cipher, key_ptr |-> key_ptr + 1, key_len |-> key_len, spec |-> spec]

\* CipherEntry::new
CipherEntryNew(cipher, key_ptr, key_len, spec) ==
    [cipher |-> cipher, key_ptr |-> key_ptr, key_len |-> key_len, spec |-> spec]

(***************************************************************************)
(* str::from_utf8: well-formed UTF-8 byte sequences (Unicode table 3-7).   *)
(***************************************************************************)
IsCont(b) == b >= 128 /\ b <= 191

RECURSIVE IsUtf8From(_, _)
IsUtf8From(s, i) ==
    IF i > Len(s) THEN TRUE
    ELSE LET b  == s[i]
             n  == Len(s) - i      \* bytes after b
             c1 == s[i + 1]
             c2 == s[i + 2]
             c3 == s[i + 3]
         IN  IF b <= 127 THEN IsUtf8From(s, i + 1)
             ELSE IF b >= 194 /\ b <= 223
                  THEN n >= 1 /\ IsCont(c1) /\ IsUtf8From(s, i + 2)
             ELSE IF b = 224
                  THEN n >= 2 /\ c1 >= 160 /\ c1 <= 191 /\ IsCont(c2) /\ IsUtf8From(s, i + 3)
             ELSE IF (b >= 225 /\ b <= 236) \/ b = 238 \/ b = 239
                  THEN n >= 2 /\ IsCont(c1) /\ IsCont(c2) /\ IsUtf8From(s, i + 3)
             ELSE IF b = 237
                  THEN n >= 2 /\ c1 >= 128 /\ c1 <= 159 /\ IsCont(c2) /\ IsUtf8From(s, i + 3)
             ELSE IF b = 240
                  THEN n >= 3 /\ c1 >= 144 /\ c1 <= 191 /\ IsCont(c2) /\ IsCont(c3)
                       /\ IsUtf8From(s, i + 4)
             ELSE IF b >= 241 /\ b <= 243
                  THEN n >= 3 /\ IsCont(c1) /\ IsCont(c2) /\ IsCont(c3) /\ IsUtf8From(s, i + 4)
             ELSE IF b = 244
                  THEN n >= 3 /\ c1 >= 128 /\ c1 <= 143 /\ IsCont(c2) /\ IsCont(c3)
                       /\ IsUtf8From(s, i + 4)
             ELSE FALSE

IsUtf8(s) == IsUtf8From(s, 1)

(***************************************************************************)
(* Guest Memory View (crate::memory).                                      *)
(***************************************************************************)
Addr == 0..(MemSize - 1)

\* the range [ptr, ptr+len) lies inside guest memory; written so that the sum is
\* never formed when it would not fit
InBounds(ptr, len) == ptr <= MemSize /\ len <= MemSize - ptr

\* the addresses of the range [ptr, ptr+len)
Range(ptr, len) == ptr..(ptr + len - 1)

\* the bytes of a validated range
Bytes(m, ptr, len) == [i \in 1..len |-> m[ptr + i - 1]]

\* dec_slice_of_u8: a validated byte slice, or out-of-bounds
dec_slice_of_u8(m, ptr, len) ==
    IF InBounds(ptr, len)
    THEN [ok |-> TRUE,  val |-> Bytes(m, ptr, len)]
    ELSE [ok |-> FALSE, val |-> << >>]

\* enc_slice_of_u8: write a byte sequence at ptr, or out-of-bounds
enc_slice_of_u8(m, bytes, ptr) ==
    IF InBounds(ptr, Len(bytes))
    THEN [ok |-> TRUE,
          mem |-> [a \in ptr..(ptr + Len(bytes) - 1) |-> bytes[a - ptr + 1]] @@ m]
    ELSE [ok |-> FALSE, mem |-> m]

\* a little-endian u32 read from four bytes.  A value of 2^31 or more is reported as
\* WordTop: every such value is larger than any memory size of the model, and the
\* memory layer only compares these values with the memory size.
WordTop == 2147483647 + 0
DecU32(m, a) ==
    IF m[a + 3] >= 128 THEN WordTop
    ELSE m[a] + 256 * m[a + 1] + 65536 * m[a + 2] + 16777216 * m[a + 3]

\* the four little-endian bytes of a u32
EncU32(v) == << v % 256, (v \div 256) % 256, (v \div 65536) % 256, (v \div 16777216) % 256 >>

\* size_of::<__wasi_iovec_t>() in the 32-bit guest ABI: buf: u32, buf_len: u32
IovecSize == 8

\* dec_iovec_slice: the descriptor array is validated, then every (buf, buf_len) it holds
dec_iovec_slice(m, ptr, n) ==
    IF ~ (n <= MemSize /\ InBounds(ptr, IovecSize * n))
    THEN [ok |-> FALSE, val |-> << >>]
    ELSE LET iovs == [i \in 1..n |->
                        [buf     |-> DecU32(m, ptr + IovecSize * (i - 1)),
                         buf_len |-> DecU32(m, ptr + IovecSize * (i - 1) + 4)]]
         IN  IF \A i \in 1..n : InBounds(iovs[i].buf, iovs[i].buf_len)
             THEN [ok |-> TRUE,  val |-> iovs]
             ELSE [ok |-> FALSE, val |-> << >>]

\* enc_aead_byref: write the new handle as a u32 at ptr, or out-of-bounds
enc_aead_byref(m, ptr, aead) == enc_slice_of_u8(m, EncU32(aead), ptr)

(***************************************************************************)
(* Resource Table (crate::table::Table): a map from handles to entries.    *)
(***************************************************************************)
EmptyTable == << >>

\* the handle values 0..max that hold no entry
FreeKeys(t, max) == { k \in 0..max : k \notin DOMAIN t }

LowestFree(t, max) == CHOOSE k \in FreeKeys(t, max) : \A j \in FreeKeys(t, max) : k <= j

\* Table::insert_at: install or replace the entry at an exact handle
TableInsertAt(t, key, e) == [k \in (DOMAIN t) \cup {key} |-> IF k = key THEN e ELSE t[k]]

\* Table::push: install the entry at the lowest free handle, or table-exhausted
TablePush(t, e, max) ==
    IF FreeKeys(t, max) = {}
    THEN [ok |-> FALSE, key |-> 0, table |-> t]
    ELSE [ok |-> TRUE, key |-> LowestFree(t, max),
          table |-> TableInsertAt(t, LowestFree(t, max), e)]

\* Table::get / contains
TableHas(t, key) == key \in DOMAIN t

\* Table::remove: detach the entry
TableRemove(t, key) == [k \in (DOMAIN t) \ {key} |-> t[k]]

(***************************************************************************)
(* Cipher-session registry of the wasi-common context (crate::ctx).        *)
(***************************************************************************)
\* WasiCtx::insert_cipher_entry: push into the registry
insert_cipher_entry(c, ce) == TablePush(c, ce, MaxAead)

\* WasiCtx::get_cipher_entry fails invalid-handle when the handle is absent
has_cipher_entry(c, aead) == TableHas(c, aead)

\* WasiCtx::remove_cipher_entry
remove_cipher_entry(c, aead) == TableRemove(c, aead)

(***************************************************************************)
(* The host AEAD primitive (openssl::symm::Crypter over aes_128_gcm).      *)
(* GCM is a stream cipher: a byte at stream position p is XORed with a     *)
(* keystream byte that depends on the key, the nonce and p, for both       *)
(* directions.  The tag is an ideal MAC: finalize of a decryption accepts  *)
(* exactly the (key, nonce, AAD, ciphertext) tuples an encryption has      *)
(* tagged, and compares as many tag bytes as the caller has set.           *)
(***************************************************************************)
RECURSIVE WSum(_, _)
WSum(s, i) == IF i > Len(s) THEN 0 ELSE (i * s[i] + WSum(s, i + 1)) % 256

RECURSIVE XorBits(_, _, _)
XorBits(a, b, n) ==
    IF n = 0 THEN 0
    ELSE (((a % 2) + (b % 2)) % 2) + 2 * XorBits(a \div 2, b \div 2, n - 1)

\* the XOR of two bytes, a nibble at a time
XorNibbles == [a \in 0..15 |-> [b \in 0..15 |-> XorBits(a, b, 4)]]
Xor(a, b) == XorNibbles[a % 16][b % 16] + 16 * XorNibbles[a \div 16][b \div 16]

\* what the keystream of one engine depends on: its key and its nonce
KeyStreamOf(key, nonce) == (7 * WSum(key, 1) + 13 * WSum(nonce, 1) + 1) % 256

\* the keystream byte at stream position pos
KeyStream(ks, pos) == (ks + 31 * pos) % 256

\* an engine that accepts every key and every nonce
CrypterNewOk_any(key, nonce) == TRUE

\* Crypter::new(cipher, mode, key, Some(nonce)): the key length is set on the context
\* and a nonce whose length is not the default is set with SET_IVLEN, which refuses 0
CrypterNewOk(key, nonce) == Len(key) = A128GCM_key_size /\ Len(nonce) >= 1

\* the position of a tuple in the log of tagged tuples, 0 when absent
TagIndex(log, tuple) ==
    IF \E i \in 1..Len(log) : log[i] = tuple
    THEN CHOOSE i \in 1..Len(log) : log[i] = tuple
    ELSE 0

\* the full tag of the i-th tagged tuple
FullTag(i) == [j \in 1..A128GCM_tag_size |-> (97 * i + 11 * j) % 256]

\* Crypter::get_tag(buf): GET_TAG refuses a length outside 1..16 and otherwise copies
\* the first Len(buf) bytes of the tag
GetTagOk(tag_len) == tag_len >= 1 /\ tag_len <= A128GCM_tag_size

\* Crypter::set_tag(tag): SET_TAG refuses a length outside 1..16
SetTagOk(tag) == Len(tag) >= 1 /\ Len(tag) <= A128GCM_tag_size

\* Crypter::finalize of a decryption: the tag bytes that were set are compared
FinalizeOk(log, tuple, tag) ==
    /\ TagIndex(log, tuple) # 0
    /\ tag = SubSeq(FullTag(TagIndex(log, tuple)), 1, Len(tag))

(***************************************************************************)
(* The bulk transform loop: iovecs in order, chunks of block_size bytes.   *)
(***************************************************************************)
Min(a, b) == IF a <= b THEN a ELSE b

\* chunks that are always block_size bytes long, the last one too
ChunksOf_whole(iov, bs) ==
    [j \in 1..((iov.buf_len + bs - 1) \div bs) |->
        [ptr |-> iov.buf + (j - 1) * bs, len |-> bs]]

\* data.chunks_mut(block_size): the chunks of one iovec, in order
ChunksOf(iov, bs) ==
    [j \in 1..((iov.buf_len + bs - 1) \div bs) |->
        [ptr |-> iov.buf + (j - 1) * bs,
         len |-> Min(bs, iov.buf_len - (j - 1) * bs)]]

\* the chunks of the iovecs taken from the last iovec to the first
RECURSIVE AllChunks_rev(_, _, _)
AllChunks_rev(iovs, i, bs) ==
    IF i > Len(iovs) THEN << >>
    ELSE ChunksOf(iovs[Len(iovs) - i + 1], bs) \o AllChunks_rev(iovs, i + 1, bs)

RECURSIVE AllChunks(_, _, _)
AllChunks(iovs, i, bs) ==
    IF i > Len(iovs) THEN << >>
    ELSE ChunksOf(iovs[i], bs) \o AllChunks(iovs, i + 1, bs)

\* a byte behind a host pointer: a pointer outside guest memory reads host memory,
\* whose content the model does not hold
HostRead(m, a) == IF a \in Addr THEN m[a] ELSE 0

\* a transform that adds the key stream instead of xoring it: not its own inverse
UpdateChunk_add(st, chunk, ks) ==
    LET inp == [k \in 1..chunk.len |-> HostRead(st.mem, chunk.ptr + k - 1)] \o << >>
        out == [k \in 1..chunk.len |-> (inp[k] + KeyStream(ks, st.pos + k - 1)) % 256] \o << >>
    IN  [mem     |-> [a \in Range(chunk.ptr, chunk.len) \cap Addr |-> out[a - chunk.ptr + 1]]
                     @@ st.mem,
         pos     |-> st.pos + chunk.len,
         inp     |-> st.inp \o inp,
         out     |-> st.out \o out,
         chunks  |-> Append(st.chunks, [ptr |-> chunk.ptr, len |-> chunk.len, pos |-> st.pos]),
         touched |-> st.touched \cup Range(chunk.ptr, chunk.len)]

\* crypter.update(&chunk, &mut block); chunk.copy_from_slice(&block[..len]):
\* one chunk is read, transformed at the current stream position and written back
UpdateChunk(st, chunk, ks) ==
    LET inp == [k \in 1..chunk.len |-> HostRead(st.mem, chunk.ptr + k - 1)] \o << >>
        out == [k \in 1..chunk.len |-> Xor(inp[k], KeyStream(ks, st.pos + k - 1))] \o << >>
    IN  [mem     |-> [a \in Range(chunk.ptr, chunk.len) \cap Addr |-> out[a - chunk.ptr + 1]]
                     @@ st.mem,
         pos     |-> st.pos + chunk.len,
         inp     |-> st.inp \o inp,
         out     |-> st.out \o out,
         chunks  |-> Append(st.chunks, [ptr |-> chunk.ptr, len |-> chunk.len, pos |-> st.pos]),
         touched |-> st.touched \cup Range(chunk.ptr, chunk.len)]

RECURSIVE RunChunks(_, _, _, _)
RunChunks(st, chunks, i, ks) ==
    IF i > Len(chunks) THEN st
    ELSE RunChunks(UpdateChunk(st, chunks[i], ks), chunks, i + 1, ks)

\* for iov in data_iovs { for chunk in data.chunks_mut(block_size) { ... } }
Transform(m, iovs, bs, key, nonce) ==
    RunChunks([mem |-> m, pos |-> 0, inp |-> << >>, out |-> << >>, chunks |-> << >>,
               touched |-> {}],
              AllChunks(iovs, 1, bs), 1, KeyStreamOf(key, nonce))

(***************************************************************************)
(* The result of a host call: the error code, the step at which the call   *)
(* returned, the registry, guest memory and the log of tagged tuples after *)
(* it, and what the call read and wrote on its way (d).                    *)
(***************************************************************************)
NoDetail ==
    [ret     |-> -1,        \* the handle written back by aead_open
     key     |-> << >>,     \* the key bytes read
     nonce   |-> << >>,     \* the nonce bytes read
     aad     |-> << >>,     \* the AAD bytes read
     tag     |-> << >>,     \* the tag produced (encrypt) or presented (decrypt)
     ct      |-> << >>,     \* the ciphertext stream produced (encrypt) or fed (decrypt)
     iovs    |-> << >>,     \* the decoded data iovecs
     before  |-> << >>,     \* the content of each data iovec when the call started
     chunks  |-> << >>,     \* the chunks given to update, in order, with their stream position
     entry   |-> << >>,     \* the table entry a get or remove returned
     touched |-> {}]        \* every address the call read or wrote

Result(errno, stage, c, m, log, d) ==
    [errno |-> errno, stage |-> stage, ciphers |-> c, mem |-> m, log |-> log, d |-> d]

(***************************************************************************)
(* crypto_aead_open                                                        *)
(***************************************************************************)
crypto_aead_open(c, m, log, algorithm_ptr, algorithm_len, key_ptr, key_len, opened_aead_ptr) ==
    LET algorithm == dec_slice_of_u8(m, algorithm_ptr, algorithm_len)
        found     == FindCipher(algorithm.val)
        cipher_impl == IMPLEMENTED_CIPHERS[CHOOSE i \in found : \A j \in found : i <= j]
        ce        == CipherEntryNew(cipher_impl.constructor, key_ptr, key_len, cipher_impl.spec)
        ins       == insert_cipher_entry(c, ce)
        w         == enc_aead_byref(m, opened_aead_ptr, ins.key)
        d1        == [NoDetail EXCEPT !.touched = Range(algorithm_ptr, algorithm_len)]
        d2        == [d1 EXCEPT !.touched = @ \cup Range(opened_aead_ptr, 4), !.ret = ins.key]
    IN  IF ~ algorithm.ok THEN Result(EFAULT, "algorithm", c, m, log, NoDetail)
        ELSE IF ~ IsUtf8(algorithm.val) THEN Result(EILSEQ, "from_utf8", c, m, log, d1)
        ELSE IF found = {} THEN Result(ENOTSUP, "find", c, m, log, d1)
        ELSE IF key_len # cipher_impl.spec.key_size THEN Result(EINVAL, "key_len", c, m, log, d1)
        ELSE IF ~ ins.ok THEN Result(EMFILE, "insert", c, m, log, d1)
        ELSE IF ~ w.ok THEN Result(EFAULT, "enc_aead", ins.table, m, log, d1)
        ELSE Result(ESUCCESS, "done", ins.table, w.mem, log, d2)

(***************************************************************************)
(* crypto_aead_encrypt                                                     *)
(***************************************************************************)
crypto_aead_encrypt(c, m, log, aead, nonce_ptr, nonce_len, auth_ptr, auth_len, data_ptr, data_len, tag_ptr, tag_len) ==
    IF ~ has_cipher_entry(c, aead) THEN Result(EBADF, "handle", c, m, log, NoDetail)
    ELSE
    LET ce    == c[aead]
        key   == dec_slice_of_u8(m, ce.key_ptr, ce.key_len)
        nonce == dec_slice_of_u8(m, nonce_ptr, nonce_len)
        auth  == dec_slice_of_u8(m, auth_ptr, auth_len)
        iovs  == dec_iovec_slice(m, data_ptr, data_len)
        x     == Transform(m, iovs.val, ce.spec.block_size, key.val, nonce.val)
        tuple == [key |-> key.val, nonce |-> nonce.val, aad |-> auth.val, ct |-> x.out]
        log1  == IF TagIndex(log, tuple) = 0 THEN Append(log, tuple) ELSE log
        tag_buf == SubSeq(FullTag(TagIndex(log1, tuple)), 1, tag_len)
        w     == enc_slice_of_u8(x.mem, tag_buf, tag_ptr)
        d1    == [NoDetail EXCEPT !.key = key.val, !.touched = Range(ce.key_ptr, ce.key_len)]
        d2    == [d1 EXCEPT !.nonce = nonce.val, !.touched = @ \cup Range(nonce_ptr, nonce_len)]
        d3    == [d2 EXCEPT !.aad = auth.val, !.touched = @ \cup Range(auth_ptr, auth_len)]
        d4    == [d3 EXCEPT !.iovs = iovs.val,
                            !.before = [i \in 1..Len(iovs.val) |->
                                           Bytes(m, iovs.val[i].buf, iovs.val[i].buf_len)],
                            !.ct = x.out,
                            !.chunks = x.chunks,
                            !.touched = @ \cup Range(data_ptr, IovecSize * data_len)
                                          \cup x.touched]
        d5    == [d4 EXCEPT !.tag = tag_buf, !.touched = @ \cup Range(tag_ptr, tag_len)]
    IN  IF ~ key.ok THEN Result(EFAULT, "key", c, m, log, NoDetail)
        ELSE IF ~ nonce.ok THEN Result(EFAULT, "nonce", c, m, log, d1)
        ELSE IF ~ CrypterNewOk(key.val, nonce.val) THEN Result(EINVAL, "new", c, m, log, d2)
        ELSE IF ~ auth.ok THEN Result(EFAULT, "auth", c, m, log, d2)
        ELSE IF ~ iovs.ok THEN Result(EFAULT, "iovs", c, m, log, d3)
        ELSE IF ~ GetTagOk(tag_len) THEN Result(EINVAL, "get_tag", c, x.mem, log, d4)
        ELSE IF ~ w.ok THEN Result(EFAULT, "enc_tag", c, x.mem, log1, d4)
        ELSE Result(ESUCCESS, "done", c, w.mem, log1, d5)

(***************************************************************************)
(* crypto_aead_decrypt                                                     *)
(***************************************************************************)
\* a decrypt that puts the ciphertext back when the tag does not authenticate
crypto_aead_decrypt_restoring(c, m, log, aead, nonce_ptr, nonce_len, auth_ptr, auth_len, data_ptr, data_len, tag_ptr, tag_len) ==
    IF ~ has_cipher_entry(c, aead) THEN Result(EBADF, "handle", c, m, log, NoDetail)
    ELSE
    LET ce    == c[aead]
        key   == dec_slice_of_u8(m, ce.key_ptr, ce.key_len)
        nonce == dec_slice_of_u8(m, nonce_ptr, nonce_len)
        auth  == dec_slice_of_u8(m, auth_ptr, auth_len)
        tag   == dec_slice_of_u8(m, tag_ptr, tag_len)
        iovs  == dec_iovec_slice(m, data_ptr, data_len)
        x     == Transform(m, iovs.val, ce.spec.block_size, key.val, nonce.val)
        tuple == [key |-> key.val, nonce |-> nonce.val, aad |-> auth.val, ct |-> x.inp]
        d1    == [NoDetail EXCEPT !.key = key.val, !.touched = Range(ce.key_ptr, ce.key_len)]
        d2    == [d1 EXCEPT !.nonce = nonce.val, !.touched = @ \cup Range(nonce_ptr, nonce_len)]
        d3    == [d2 EXCEPT !.aad = auth.val, !.touched = @ \cup Range(auth_ptr, auth_len)]
        d4    == [d3 EXCEPT !.tag = tag.val, !.touched = @ \cup Range(tag_ptr, tag_len)]
        d5    == [d4 EXCEPT !.iovs = iovs.val,
                            !.before = [i \in 1..Len(iovs.val) |->
                                           Bytes(m, iovs.val[i].buf, iovs.val[i].buf_len)],
                            !.ct = x.inp,
                            !.chunks = x.chunks,
                            !.touched = @ \cup Range(data_ptr, IovecSize * data_len)
                                          \cup x.touched]
    IN  IF ~ key.ok THEN Result(EFAULT, "key", c, m, log, NoDetail)
        ELSE IF ~ nonce.ok THEN Result(EFAULT, "nonce", c, m, log, d1)
        ELSE IF ~ CrypterNewOk(key.val, nonce.val) THEN Result(EINVAL, "new", c, m, log, d2)
        ELSE IF ~ auth.ok THEN Result(EFAULT, "auth", c, m, log, d2)
        ELSE IF ~ tag.ok THEN Result(EFAULT, "tag", c, m, log, d3)
        ELSE IF ~ SetTagOk(tag.val) THEN Result(EINVAL, "set_tag", c, m, log, d4)
        ELSE IF ~ iovs.ok THEN Result(EFAULT, "iovs", c, m, log, d4)
        ELSE IF ~ FinalizeOk(log, tuple, tag.val) THEN Result(EINVAL, "finalize", c, m, log, d5)
        ELSE Result(ESUCCESS, "done", c, x.mem, log, d5)

\* crypto_aead_decrypt as the source has it
crypto_aead_decrypt(c, m, log, aead, nonce_ptr, nonce_len, auth_ptr, auth_len, data_ptr, data_len, tag_ptr, tag_len) ==
    IF ~ has_cipher_entry(c, aead) THEN Result(EBADF, "handle", c, m, log, NoDetail)
    ELSE
    LET ce    == c[aead]
        key   == dec_slice_of_u8(m, ce.key_ptr, ce.key_len)
        nonce == dec_slice_of_u8(m, nonce_ptr, nonce_len)
        auth  == dec_slice_of_u8(m, auth_ptr, auth_len)
        tag   == dec_slice_of_u8(m, tag_ptr, tag_len)
        iovs  == dec_iovec_slice(m, data_ptr, data_len)
        x     == Transform(m, iovs.val, ce.spec.block_size, key.val, nonce.val)
        tuple == [key |-> key.val, nonce |-> nonce.val, aad |-> auth.val, ct |-> x.inp]
        d1    == [NoDetail EXCEPT !.key = key.val, !.touched = Range(ce.key_ptr, ce.key_len)]
        d2    == [d1 EXCEPT !.nonce = nonce.val, !.touched = @ \cup Range(nonce_ptr, nonce_len)]
        d3    == [d2 EXCEPT !.aad = auth.val, !.touched = @ \cup Range(auth_ptr, auth_len)]
        d4    == [d3 EXCEPT !.tag = tag.val, !.touched = @ \cup Range(tag_ptr, tag_len)]
        d5    == [d4 EXCEPT !.iovs = iovs.val,
                            !.before = [i \in 1..Len(iovs.val) |->
                                           Bytes(m, iovs.val[i].buf, iovs.val[i].buf_len)],
                            !.ct = x.inp,
                            !.chunks = x.chunks,
                            !.touched = @ \cup Range(data_ptr, IovecSize * data_len)
                                          \cup x.touched]
    IN  IF ~ key.ok THEN Result(EFAULT, "key", c, m, log, NoDetail)
        ELSE IF ~ nonce.ok THEN Result(EFAULT, "nonce", c, m, log, d1)
        ELSE IF ~ CrypterNewOk(key.val, nonce.val) THEN Result(EINVAL, "new", c, m, log, d2)
        ELSE IF ~ auth.ok THEN Result(EFAULT, "auth", c, m, log, d2)
        ELSE IF ~ tag.ok THEN Result(EFAULT, "tag", c, m, log, d3)
        ELSE IF ~ SetTagOk(tag.val) THEN Result(EINVAL, "set_tag", c, m, log, d4)
        ELSE IF ~ iovs.ok THEN Result(EFAULT, "iovs", c, m, log, d4)
        ELSE IF ~ FinalizeOk(log, tuple, tag.val) THEN Result(EINVAL, "finalize", c, x.mem, log, d5)
        ELSE Result(ESUCCESS, "done", c, x.mem, log, d5)

(***************************************************************************)
(* crypto_aead_close                                                       *)
(***************************************************************************)
\* a close that drops every session of the registry
crypto_aead_close_all(c, m, log, aead) ==
    IF ~ has_cipher_entry(c, aead) THEN Result(EBADF, "handle", c, m, log, NoDetail)
    ELSE Result(ESUCCESS, "done", EmptyTable, m, log, NoDetail)

\* crypto_aead_close as the source has it
crypto_aead_close(c, m, log, aead) ==
    IF ~ has_cipher_entry(c, aead) THEN Result(EBADF, "handle", c, m, log, NoDetail)
    ELSE Result(ESUCCESS, "done", remove_cipher_entry(c, aead), m, log, NoDetail)

(***************************************************************************)
(* crypto_mac_open, crypto_mac_update, crypto_mac_digest, crypto_mac_close *)
(* and crypto_hkdf: each traces its arguments and returns ENOSYS.          *)
(***************************************************************************)
\* a mac_open that binds the algorithm and key to a handle as aead_open does
crypto_mac_open_bound(c, m, log, algorithm_ptr, algorithm_len, key_ptr, key_len, opened_mac_ptr) ==
    crypto_aead_open(c, m, log, algorithm_ptr, algorithm_len, key_ptr, key_len, opened_mac_ptr)

crypto_mac_open(c, m, log, algorithm_ptr, algorithm_len, key_ptr, key_len, opened_mac_ptr) ==
    Result(ENOSYS, "done", c, m, log, NoDetail)

crypto_mac_update(c, m, log, mac, data_ptr, data_len) ==
    Result(ENOSYS, "done", c, m, log, NoDetail)

crypto_mac_digest(c, m, log, mac, digest_ptr, digest_len) ==
    Result(ENOSYS, "done", c, m, log, NoDetail)

crypto_mac_close(c, m, log, mac) ==
    Result(ENOSYS, "done", c, m, log, NoDetail)

crypto_hkdf(c, m, log, algorithm_ptr, algorithm_len, op, input_ptr, input_len, output_ptr, output_len) ==
    Result(ENOSYS, "done", c, m, log, NoDetail)

(***************************************************************************)
(* Entries and operations of the wasi-c2 context and its builder (ctx.rs). *)
(***************************************************************************)
FileCapsREAD  == {"read"}
FileCapsWRITE == {"write"}
FileCapsAll   == {"read", "write", "seek"}
DirCapsAll    == {"open", "readdir", "create_file"}

\* FileEntry::new(caps, file)
FileEntryNew(caps, file) == [kind |-> "file", caps |-> caps, file |-> file]

\* DirEntry::new(caps, file_caps, Some(path), dir)
DirEntryNew(caps, file_caps, path, dir) ==
    [kind |-> "dir", caps |-> caps, file_caps |-> file_caps, preopen_path |-> path, dir |-> dir]

\* an insert_at that keeps the entry a handle already has
insert_file_at_keep(t, fd, file, caps) ==
    IF fd \in DOMAIN t THEN t ELSE TableInsertAt(t, fd, FileEntryNew(caps, file))

\* WasiCtx::insert_file_at
insert_file_at(t, fd, file, caps) == TableInsertAt(t, fd, FileEntryNew(caps, file))

\* WasiCtx::insert_dir_at
insert_dir_at(t, fd, dir, caps, file_caps, path) ==
    TableInsertAt(t, fd, DirEntryNew(caps, file_caps, path, dir))

\* a push that takes the number of live entries for the next handle
insert_file_count(t, file, caps) ==
    [ok |-> TRUE, key |-> Cardinality(DOMAIN t),
     table |-> TableInsertAt(t, Cardinality(DOMAIN t), FileEntryNew(caps, file))]

\* WasiCtx::insert_file
insert_file(t, file, caps) == TablePush(t, FileEntryNew(caps, file), MaxFd)

\* WasiCtxBuilder::stdin / stdout / stderr
stdin(t, f)  == TableInsertAt(t, 0, FileEntryNew(FileCapsREAD, f))
stdout(t, f) == TableInsertAt(t, 1, FileEntryNew(FileCapsWRITE, f))
stderr(t, f) == TableInsertAt(t, 2, FileEntryNew(FileCapsWRITE, f))

\* WasiCtxBuilder::inherit_stdio
inherit_stdio(t) == stderr(stdout(stdin(t, "host_stdin"), "host_stdout"), "host_stderr")

\* a preopened directory that is given no rights at all
preopened_dir_bare(t, dir, path) ==
    TablePush(t, DirEntryNew({}, {}, path, dir), MaxFd)

\* WasiCtxBuilder::preopened_dir
preopened_dir(t, dir, path) ==
    TablePush(t, DirEntryNew(DirCapsAll, FileCapsAll, path, dir), MaxFd)

(***************************************************************************)
(* Opening a resource beneath a directory handle: the rights of the new    *)
(* entry are the requested rights intersected with what the directory      *)
(* entry passes down.                                                      *)
(***************************************************************************)
ENOTCAPABLE == "not-capable"

\* DirEntry::child_dir_caps / child_file_caps
child_dir_caps(dir_entry, desired)  == dir_entry.caps \cap desired
child_file_caps(dir_entry, desired) == dir_entry.file_caps \cap desired

\* the directory entry at dirfd, when there is one that may open descendants
OpenCheck(t, dirfd) ==
    IF ~ TableHas(t, dirfd) THEN EBADF
    ELSE IF t[dirfd].kind # "dir" THEN EBADF
    ELSE IF "open" \notin t[dirfd].caps THEN ENOTCAPABLE
    ELSE ESUCCESS

\* path_open of a file beneath dirfd
path_open_file(t, dirfd, file, desired) ==
    IF OpenCheck(t, dirfd) # ESUCCESS
    THEN [errno |-> OpenCheck(t, dirfd), key |-> 0, table |-> t]
    ELSE LET r == TablePush(t, FileEntryNew(child_file_caps(t[dirfd], desired), file), MaxFd)
         IN  [errno |-> IF r.ok THEN ESUCCESS ELSE EMFILE, key |-> r.key, table |-> r.table]

\* path_open of a directory beneath dirfd
path_open_dir(t, dirfd, dir, desired, desired_file) ==
    IF OpenCheck(t, dirfd) # ESUCCESS
    THEN [errno |-> OpenCheck(t, dirfd), key |-> 0, table |-> t]
    ELSE LET e == DirEntryNew(child_dir_caps(t[dirfd], desired),
                              child_file_caps(t[dirfd], desired_file),
                              t[dirfd].preopen_path, dir)
             r == TablePush(t, e, MaxFd)
         IN  [errno |-> IF r.ok THEN ESUCCESS ELSE EMFILE, key |-> r.key, table |-> r.table]

(***************************************************************************)
(* The guest's memory image and the arguments it passes.                   *)
(***************************************************************************)
\* where the guest keeps what it passes to the host calls
L == [nameA128 |-> 0,  nameA256 |-> 7,  nameBad |-> 14, key |-> 16, nonce |-> 32,
      aad |-> 44, data |-> 48, tag |-> 68, out |-> 84,
      iovSplit |-> 88, iovOverlap |-> 104, iovKey |-> 120, iovOob |-> 128,
      iovWhole |-> 136, iovEnd |-> 144]

\* "hello wasi crypto"
Plaintext == <<104, 101, 108, 108, 111, 32, 119, 97, 115, 105, 32, 99, 114, 121, 112, 116, 111>>

\* one __wasi_iovec_t as the guest stores it
Iovec(buf, len) == EncU32(buf) \o EncU32(len)

Image ==
    { <<L.nameA128, NameA128GCM>>,
      <<L.nameA256, NameA256GCM>>,
      <<L.nameBad,  <<195, 40>> >>,
      <<L.key,   [i \in 1..A128GCM_key_size |-> 3 * i]>>,
      <<L.nonce, [i \in 1..A128GCM_nonce_size |-> 200 + i]>>,
      <<L.aad,   <<1, 2, 3, 4>> >>,
      <<L.data,  Plaintext>>,
      \* the 17 bytes as two iovecs, split after byte 5
      <<L.iovSplit,   Iovec(L.data, 5) \o Iovec(L.data + 5, 12)>>,
      \* two iovecs that share bytes 2..4 of the data
      <<L.iovOverlap, Iovec(L.data, 5) \o Iovec(L.data + 2, 12)>>,
      \* one iovec over the second half of the key and the start of the nonce
      <<L.iovKey,     Iovec(L.key + 8, 12)>>,
      \* one iovec that runs past the end of memory
      <<L.iovOob,     Iovec(MemSize - 4, 12)>>,
      \* the 17 bytes as one iovec: a full chunk and a chunk of one byte
      <<L.iovWhole,   Iovec(L.data, Len(Plaintext))>>,
      \* one iovec over the last four bytes of memory
      <<L.iovEnd,     Iovec(MemSize - 4, 4)>> }

InitMem ==
    [a \in Addr |->
        IF \E p \in Image : a >= p[1] /\ a < p[1] + Len(p[2])
        THEN LET p == CHOOSE q \in Image : a >= q[1] /\ a < q[1] + Len(q[2])
             IN  p[2][a - p[1] + 1]
        ELSE 0]

\* arguments of aead_open
OpenBase ==
    [algorithm_ptr |-> L.nameA128, algorithm_len |-> Len(NameA128GCM),
     key_ptr |-> L.key, key_len |-> A128GCM_key_size, opened_aead_ptr |-> L.out]

OpenArgs ==
    { OpenBase,
      [OpenBase EXCEPT !.algorithm_ptr = L.nameA256, !.key_len = 32],
      [OpenBase EXCEPT !.algorithm_ptr = L.nameBad, !.algorithm_len = 2],
      [OpenBase EXCEPT !.key_len = A128GCM_key_size - 1],
      [OpenBase EXCEPT !.algorithm_ptr = MemSize - 3],
      [OpenBase EXCEPT !.opened_aead_ptr = MemSize - 3],
      [OpenBase EXCEPT !.key_ptr = MemSize - 3] }

\* arguments of aead_encrypt and aead_decrypt
CallBase ==
    [aead |-> 0, nonce_ptr |-> L.nonce, nonce_len |-> A128GCM_nonce_size,
     auth_ptr |-> L.aad, auth_len |-> 0, data_ptr |-> L.iovSplit, data_len |-> 2,
     tag_ptr |-> L.tag, tag_len |-> A128GCM_tag_size]

CallArgs ==
    { CallBase,
      [CallBase EXCEPT !.aead = 1],
      [CallBase EXCEPT !.auth_len = 4],
      [CallBase EXCEPT !.auth_ptr = L.aad + 1, !.auth_len = 4],
      [CallBase EXCEPT !.auth_ptr = MemSize - 3, !.auth_len = 4],
      [CallBase EXCEPT !.data_ptr = L.iovOverlap],
      [CallBase EXCEPT !.data_ptr = L.iovKey, !.data_len = 1],
      [CallBase EXCEPT !.data_ptr = L.iovOob, !.data_len = 1],
      [CallBase EXCEPT !.data_ptr = L.iovWhole, !.data_len = 1],
      [CallBase EXCEPT !.data_ptr = L.iovEnd, !.data_len = 1],
      [CallBase EXCEPT !.data_ptr = MemSize - IovecSize],
      [CallBase EXCEPT !.nonce_ptr = MemSize - 3],
      [CallBase EXCEPT !.nonce_len = 0],
      [CallBase EXCEPT !.tag_len = 12],
      [CallBase EXCEPT !.tag_len = 0],
      [CallBase EXCEPT !.tag_len = A128GCM_tag_size + 1],
      [CallBase EXCEPT !.tag_ptr = MemSize - 3],
      [CallBase EXCEPT !.tag_ptr = L.data + 12] }

\* the handles the guest passes to aead_close
CloseArgs == 0..MaxAead

\* the addresses the guest stores to between host calls
StoreAddrs == {L.key, L.data, L.tag}

(***************************************************************************)
(* State.                                                                  *)
(***************************************************************************)
VARIABLES
    mem,       \* guest linear memory
    ciphers,   \* the cipher-session registry: AEAD handle -> CipherEntry
    tagged,    \* the tuples the AEAD primitive has tagged
    opened,    \* the handles a successful aead_open returned and no aead_close has closed
    produced,  \* what every successful aead_encrypt used and produced
    table,     \* the resource table of the wasi-c2 context (or of its builder)
    built,     \* the table belongs to a built context, not to a builder
    last,      \* the most recent call and its outcome
    calls,     \* number of calls made
    stores     \* number of guest stores made

vars == <<mem, ciphers, tagged, opened, produced, table, built, last, calls, stores>>

NoCall == [op |-> "none", args |-> << >>, errno |-> ESUCCESS, stage |-> "none", d |-> NoDetail]

Init ==
    /\ mem = InitMem
    /\ ciphers = EmptyTable
    /\ tagged = << >>
    /\ opened = {}
    /\ produced = {}
    /\ table = EmptyTable
    /\ built = FALSE
    /\ last = NoCall
    /\ calls = 0
    /\ stores = 0

Called(op, args, r) == [op |-> op, args |-> args, errno |-> r.errno, stage |-> r.stage, d |-> r.d]

(***************************************************************************)
(* The AEAD host calls.                                                    *)
(***************************************************************************)
AeadOpen(a) ==
    /\ calls < MaxCalls
    /\ LET r == crypto_aead_open(ciphers, mem, tagged, a.algorithm_ptr, a.algorithm_len,
                                 a.key_ptr, a.key_len, a.opened_aead_ptr)
       IN  /\ mem' = r.mem
           /\ ciphers' = r.ciphers
           /\ opened' = IF r.errno = ESUCCESS THEN opened \cup {r.d.ret} ELSE opened
           /\ last' = Called("aead_open", a, r)
    /\ calls' = calls + 1
    /\ UNCHANGED <<tagged, produced, table, built, stores>>

AeadEncrypt(a) ==
    /\ calls < MaxCalls
    /\ LET r == crypto_aead_encrypt(ciphers, mem, tagged, a.aead, a.nonce_ptr, a.nonce_len,
                                    a.auth_ptr, a.auth_len, a.data_ptr, a.data_len,
                                    a.tag_ptr, a.tag_len)
       IN  /\ mem' = r.mem
           /\ ciphers' = r.ciphers
           /\ tagged' = r.log
           /\ produced' = IF r.errno = ESUCCESS
                          THEN produced \cup {[key |-> r.d.key, nonce |-> r.d.nonce,
                                                aad |-> r.d.aad, ct |-> r.d.ct, tag |-> r.d.tag]}
                          ELSE produced
           /\ last' = Called("aead_encrypt", a, r)
    /\ calls' = calls + 1
    /\ UNCHANGED <<opened, table, built, stores>>

AeadDecrypt(a) ==
    /\ calls < MaxCalls
    /\ LET r == crypto_aead_decrypt(ciphers, mem, tagged, a.aead, a.nonce_ptr, a.nonce_len,
                                    a.auth_ptr, a.auth_len, a.data_ptr, a.data_len,
                                    a.tag_ptr, a.tag_len)
       IN  /\ mem' = r.mem
           /\ ciphers' = r.ciphers
           /\ tagged' = r.log
           /\ last' = Called("aead_decrypt", a, r)
    /\ calls' = calls + 1
    /\ UNCHANGED <<opened, produced, table, built, stores>>

AeadClose(h) ==
    /\ calls < MaxCalls
    /\ LET r == crypto_aead_close(ciphers, mem, tagged, h)
       IN  /\ ciphers' = r.ciphers
           /\ opened' = IF r.errno = ESUCCESS THEN opened \ {h} ELSE opened
           /\ last' = Called("aead_close", [aead |-> h], r)
    /\ calls' = calls + 1
    /\ UNCHANGED <<mem, tagged, produced, table, built, stores>>

\* the guest changes one byte of its memory between two host calls
GuestStore(addr) ==
    /\ stores < MaxStores
    /\ calls < MaxCalls
    /\ mem' = [mem EXCEPT ![addr] = (@ + 1) % 256]
    /\ last' = [NoCall EXCEPT !.op = "store", !.args = [addr |-> addr]]
    /\ stores' = stores + 1
    /\ UNCHANGED <<ciphers, tagged, opened, produced, table, built, calls>>

(***************************************************************************)
(* The calls on the wasi-c2 builder and context.                           *)
(***************************************************************************)
\* the handles, files and directories the host passes
Fds   == {0, 1, 3}
Files == {"f1", "f2"}
Dirs  == {"d1"}

TableCalled(op, args, errno, ret, entry) ==
    [NoCall EXCEPT !.op = op, !.args = args, !.errno = errno, !.stage = "done",
                   !.d = [NoDetail EXCEPT !.ret = ret, !.entry = entry]]

Stdin(f) ==
    /\ ~ built /\ calls < MaxCalls
    /\ table' = stdin(table, f)
    /\ last' = TableCalled("stdin", [fd |-> 0, file |-> f], ESUCCESS, -1, << >>)
    /\ calls' = calls + 1
    /\ UNCHANGED <<mem, ciphers, tagged, opened, produced, built, stores>>

Stdout(f) ==
    /\ ~ built /\ calls < MaxCalls
    /\ table' = stdout(table, f)
    /\ last' = TableCalled("stdout", [fd |-> 1, file |-> f], ESUCCESS, -1, << >>)
    /\ calls' = calls + 1
    /\ UNCHANGED <<mem, ciphers, tagged, opened, produced, built, stores>>

Stderr(f) ==
    /\ ~ built /\ calls < MaxCalls
    /\ table' = stderr(table, f)
    /\ last' = TableCalled("stderr", [fd |-> 2, file |-> f], ESUCCESS, -1, << >>)
    /\ calls' = calls + 1
    /\ UNCHANGED <<mem, ciphers, tagged, opened, produced, built, stores>>

InheritStdio ==
    /\ ~ built /\ calls < MaxCalls
    /\ table' = inherit_stdio(table)
    /\ last' = TableCalled("inherit_stdio", << >>, ESUCCESS, -1, << >>)
    /\ calls' = calls + 1
    /\ UNCHANGED <<mem, ciphers, tagged, opened, produced, built, stores>>

PreopenedDir(dir, path) ==
    /\ ~ built /\ calls < MaxCalls
    /\ LET r == preopened_dir(table, dir, path)
       IN  /\ table' = r.table
           /\ last' = TableCalled("preopened_dir", [dir |-> dir, path |-> path],
                                  IF r.ok THEN ESUCCESS ELSE EMFILE,
                                  IF r.ok THEN r.key ELSE -1, << >>)
    /\ calls' = calls + 1
    /\ UNCHANGED <<mem, ciphers, tagged, opened, produced, built, stores>>

\* WasiCtxBuilder::build: the builder's table becomes the context's
Build ==
    /\ ~ built
    /\ built' = TRUE
    /\ last' = TableCalled("build", << >>, ESUCCESS, -1, << >>)
    /\ UNCHANGED <<mem, ciphers, tagged, opened, produced, table, calls, stores>>

InsertFileAt(fd, file, caps) ==
    /\ built /\ calls < MaxCalls
    /\ table' = insert_file_at(table, fd, file, caps)
    /\ last' = TableCalled("insert_file_at", [fd |-> fd, entry |-> FileEntryNew(caps, file)],
                           ESUCCESS, -1, << >>)
    /\ calls' = calls + 1
    /\ UNCHANGED <<mem, ciphers, tagged, opened, produced, built, stores>>

InsertDirAt(fd, dir, caps, file_caps, path) ==
    /\ built /\ calls < MaxCalls
    /\ table' = insert_dir_at(table, fd, dir, caps, file_caps, path)
    /\ last' = TableCalled("insert_dir_at",
                           [fd |-> fd, entry |-> DirEntryNew(caps, file_caps, path, dir)],
                           ESUCCESS, -1, << >>)
    /\ calls' = calls + 1
    /\ UNCHANGED <<mem, ciphers, tagged, opened, produced, built, stores>>

InsertFile(file, caps) ==
    /\ built /\ calls < MaxCalls
    /\ LET r == insert_file(table, file, caps)
       IN  /\ table' = r.table
           /\ last' = TableCalled("insert_file", [entry |-> FileEntryNew(caps, file)],
                                  IF r.ok THEN ESUCCESS ELSE EMFILE,
                                  IF r.ok THEN r.key ELSE -1, << >>)
    /\ calls' = calls + 1
    /\ UNCHANGED <<mem, ciphers, tagged, opened, produced, built, stores>>

\* Table::get through WasiCtx::table()
Get(fd) ==
    /\ built /\ calls < MaxCalls
    /\ last' = IF TableHas(table, fd)
               THEN TableCalled("get", [fd |-> fd], ESUCCESS, -1, table[fd])
               ELSE TableCalled("get", [fd |-> fd], EBADF, -1, << >>)
    /\ calls' = calls + 1
    /\ UNCHANGED <<mem, ciphers, tagged, opened, produced, table, built, stores>>

\* Table::remove through WasiCtx::table()
Remove(fd) ==
    /\ built /\ calls < MaxCalls
    /\ IF TableHas(table, fd)
       THEN /\ table' = TableRemove(table, fd)
            /\ last' = TableCalled("remove", [fd |-> fd], ESUCCESS, -1, table[fd])
       ELSE /\ table' = table
            /\ last' = TableCalled("remove", [fd |-> fd], EBADF, -1, << >>)
    /\ calls' = calls + 1
    /\ UNCHANGED <<mem, ciphers, tagged, opened, produced, built, stores>>

TableNext ==
    \/ \E f \in Files : Stdin(f)
    \/ \E f \in Files : Stdout(f)
    \/ \E f \in Files : Stderr(f)
    \/ InheritStdio
    \/ \E dir \in Dirs : PreopenedDir(dir, "/")
    \/ Build
    \/ \E fd \in Fds, f \in Files : InsertFileAt(fd, f, FileCapsREAD)
    \/ \E fd \in Fds, dir \in Dirs : InsertDirAt(fd, dir, DirCapsAll, FileCapsAll, "/")
    \/ \E f \in Files : InsertFile(f, FileCapsAll)
    \/ \E fd \in Fds : Get(fd)
    \/ \E fd \in Fds : Remove(fd)
    \/ \E a \in OpenArgs : AeadOpen(a)
    \/ \E h \in CloseArgs : AeadClose(h)

AeadNext ==
    \/ \E a \in OpenArgs : AeadOpen(a)
    \/ \E a \in CallArgs : AeadEncrypt(a)
    \/ \E a \in CallArgs : AeadDecrypt(a)
    \/ \E h \in CloseArgs : AeadClose(h)
    \/ \E addr \in StoreAddrs : GuestStore(addr)

Next == AeadNext

Spec == Init /\ [][Next]_vars

\* the resource table and the registry, without the bulk transforms
TableSpec == Init /\ [][TableNext]_vars

(***************************************************************************)
(* The MAC and key-derivation host calls.                                  *)
(***************************************************************************)
\* a data or digest range the guest passes: inside memory, or running past its end
MacRanges == { [ptr |-> L.data, len |-> Len(Plaintext)], [ptr |-> MemSize - 3, len |-> 8] }

\* arguments of hkdf: extract or expand, output inside memory or past its end
HkdfArgs ==
    { [algorithm_ptr |-> L.nameA128, algorithm_len |-> Len(NameA128GCM), op |-> o,
       input_ptr |-> L.key, input_len |-> A128GCM_key_size,
       output_ptr |-> out, output_len |-> A128GCM_key_size] : o \in {0, 1}, out \in {L.tag, MemSize - 3} }

\* the state a stub call leaves: whatever the call returns is installed
StubCall(op, args, r) ==
    /\ calls < MaxCalls
    /\ mem' = r.mem
    /\ ciphers' = r.ciphers
    /\ tagged' = r.log
    /\ opened' = IF op = "mac_open" /\ r.errno = ESUCCESS THEN opened \cup {r.d.ret} ELSE opened
    /\ last' = Called(op, args, r)
    /\ calls' = calls + 1
    /\ UNCHANGED <<produced, table, built, stores>>

MacOpen(a) ==
    StubCall("mac_open", a,
             crypto_mac_open(ciphers, mem, tagged, a.algorithm_ptr, a.algorithm_len,
                             a.key_ptr, a.key_len, a.opened_aead_ptr))

MacUpdate(mac, data) ==
    StubCall("mac_update", [mac |-> mac, data_ptr |-> data.ptr, data_len |-> data.len],
             crypto_mac_update(ciphers, mem, tagged, mac, data.ptr, data.len))

MacDigest(mac, digest) ==
    StubCall("mac_digest", [mac |-> mac, digest_ptr |-> digest.ptr, digest_len |-> digest.len],
             crypto_mac_digest(ciphers, mem, tagged, mac, digest.ptr, digest.len))

MacClose(mac) ==
    StubCall("mac_close", [mac |-> mac], crypto_mac_close(ciphers, mem, tagged, mac))

Hkdf(a) ==
    StubCall("hkdf", a,
             crypto_hkdf(ciphers, mem, tagged, a.algorithm_ptr, a.algorithm_len, a.op,
                         a.input_ptr, a.input_len, a.output_ptr, a.output_len))

StubNext ==
    \/ \E a \in OpenArgs : MacOpen(a)
    \/ \E mac \in CloseArgs, data \in MacRanges : MacUpdate(mac, data)
    \/ \E mac \in CloseArgs, digest \in MacRanges : MacDigest(mac, digest)
    \/ \E mac \in CloseArgs : MacClose(mac)
    \/ \E a \in HkdfArgs : Hkdf(a)

(***************************************************************************)
(* The guest opens files and directories beneath a directory handle.       *)
(***************************************************************************)
\* the rights a guest asks for
DesiredDirCaps  == {DirCapsAll, {"open"}}
DesiredFileCaps == {FileCapsAll, FileCapsREAD}

PathOpenFile(dirfd, file, desired) ==
    /\ built /\ calls < MaxCalls
    /\ LET r == path_open_file(table, dirfd, file, desired)
       IN  /\ table' = r.table
           /\ last' = TableCalled("path_open_file", [fd |-> dirfd, desired |-> desired],
                                  r.errno, IF r.errno = ESUCCESS THEN r.key ELSE -1, << >>)
    /\ calls' = calls + 1
    /\ UNCHANGED <<mem, ciphers, tagged, opened, produced, built, stores>>

PathOpenDir(dirfd, dir, desired, desired_file) ==
    /\ built /\ calls < MaxCalls
    /\ LET r == path_open_dir(table, dirfd, dir, desired, desired_file)
       IN  /\ table' = r.table
           /\ last' = TableCalled("path_open_dir",
                                  [fd |-> dirfd, desired |-> desired, desired_file |-> desired_file],
                                  r.errno, IF r.errno = ESUCCESS THEN r.key ELSE -1, << >>)
    /\ calls' = calls + 1
    /\ UNCHANGED <<mem, ciphers, tagged, opened, produced, built, stores>>

DeriveNext ==
    \/ \E dirfd \in Fds, desired \in DesiredFileCaps : PathOpenFile(dirfd, "f1", desired)
    \/ \E dirfd \in Fds, desired \in DesiredDirCaps, desired_file \in DesiredFileCaps :
          PathOpenDir(dirfd, "d1", desired, desired_file)

\* the whole context: builder, resource table, registry and the stubbed calls
CtxNext ==
    \/ TableNext
    \/ StubNext
    \/ DeriveNext

CtxSpec == Init /\ [][CtxNext]_vars

(***************************************************************************)
(* Properties.                                                             *)
(***************************************************************************)
\* the step is a call of op
Calls(op) == calls' = calls + 1 /\ last'.op = op

\* C1: whenever aead_open returns an error, the registry is what it was before the
\* call: a failed open leaves no session inserted.
C1_FailedOpenLeavesNoSession ==
    [][ (Calls("aead_open") /\ last'.errno # ESUCCESS) => ciphers' = ciphers ]_vars

\* C2: aead_encrypt, aead_decrypt and aead_close on a handle that no successful
\* aead_open returned, or that was closed since, fail with invalid-handle.
C2_NotOpenIsInvalidHandle ==
    [][ ( /\ (Calls("aead_encrypt") \/ Calls("aead_decrypt") \/ Calls("aead_close"))
          /\ last'.args.aead \notin opened )
        => last'.errno = EBADF ]_vars

\* aead_open succeeded on this step: one new session at a handle that was free, the
\* handle returned in guest memory
OpenSucceeded ==
    /\ last'.errno = ESUCCESS
    /\ last'.d.ret \notin DOMAIN ciphers
    /\ DOMAIN ciphers' = (DOMAIN ciphers) \cup {last'.d.ret}
    /\ \A h \in DOMAIN ciphers : ciphers'[h] = ciphers[h]
    /\ ciphers'[last'.d.ret].key_ptr = last'.args.key_ptr
    /\ Bytes(mem', last'.args.opened_aead_ptr, 4) = EncU32(last'.d.ret)

\* C3, as claimed: a name that is not UTF-8 fails malformed-sequence; otherwise a name
\* other than "A128GCM" fails not-supported; otherwise a key length other than 16 fails
\* invalid-argument; otherwise the call succeeds and creates one session.
C3_AsClaimed ==
    [][ ( /\ Calls("aead_open")
          /\ InBounds(last'.args.algorithm_ptr, last'.args.algorithm_len) )
        => LET name == Bytes(mem, last'.args.algorithm_ptr, last'.args.algorithm_len)
           IN  IF ~ IsUtf8(name) THEN last'.errno = EILSEQ
               ELSE IF name # NameA128GCM THEN last'.errno = ENOTSUP
               ELSE IF last'.args.key_len # 16 THEN last'.errno = EINVAL
               ELSE OpenSucceeded ]_vars

\* C3, amended: the same order, preceded by the bounds check of the name and followed
\* by the two failures that remain after validation: no free handle (table-exhausted)
\* and a handle location out of bounds (out-of-bounds).
C3_OpenValidationOrder ==
    [][ Calls("aead_open")
        => IF ~ InBounds(last'.args.algorithm_ptr, last'.args.algorithm_len)
           THEN last'.errno = EFAULT
           ELSE LET name == Bytes(mem, last'.args.algorithm_ptr, last'.args.algorithm_len)
                IN  IF ~ IsUtf8(name) THEN last'.errno = EILSEQ
                    ELSE IF name # NameA128GCM THEN last'.errno = ENOTSUP
                    ELSE IF last'.args.key_len # 16 THEN last'.errno = EINVAL
                    ELSE IF \A h \in 0..MaxAead : h \in DOMAIN ciphers THEN last'.errno = EMFILE
                    ELSE IF ~ InBounds(last'.args.opened_aead_ptr, 4) THEN last'.errno = EFAULT
                    ELSE OpenSucceeded ]_vars

\* an aead_open has succeeded and its session is live
C3_Witness ==
    /\ last.op = "aead_open" /\ last.errno = ESUCCESS
    /\ last.d.ret \in DOMAIN ciphers
    /\ Bytes(mem, last.args.algorithm_ptr, last.args.algorithm_len) = NameA128GCM

\* the addresses of the data iovecs
DataRange(iovs, i) == Range(iovs[i].buf, iovs[i].buf_len)
AllData(iovs) == UNION { DataRange(iovs, i) : i \in 1..Len(iovs) }

\* what a call with arguments a on session ce writes (the data iovecs iovs and the tag)
\* does not overlap itself nor anything the call reads
WritesApart(a, ce, iovs) ==
    LET tagR  == Range(a.tag_ptr, a.tag_len)
        reads == Range(ce.key_ptr, ce.key_len) \cup Range(a.nonce_ptr, a.nonce_len)
                 \cup Range(a.auth_ptr, a.auth_len)
                 \cup Range(a.data_ptr, IovecSize * a.data_len)
    IN  /\ \A i, j \in 1..Len(iovs) : i # j => DataRange(iovs, i) \cap DataRange(iovs, j) = {}
        /\ tagR \cap AllData(iovs) = {}
        /\ (tagR \cup AllData(iovs)) \cap reads = {}

\* the step is an aead_decrypt that repeats the arguments of the successful
\* aead_encrypt (12-byte nonce) made just before it
DecryptAfterEncrypt ==
    /\ last.op = "aead_encrypt" /\ last.errno = ESUCCESS
    /\ last.args.nonce_len = 12
    /\ Calls("aead_decrypt")
    /\ last'.args = last.args

\* the decrypt succeeded and every data iovec holds what it held before the encrypt
PlaintextRestored ==
    /\ last'.errno = ESUCCESS
    /\ \A i \in 1..Len(last.d.iovs) :
          Bytes(mem', last.d.iovs[i].buf, last.d.iovs[i].buf_len) = last.d.before[i]

\* a successful encrypt changes guest memory only inside the data iovecs and the tag,
\* and produces as many ciphertext bytes as the iovecs hold
LengthPreserved ==
    (Calls("aead_encrypt") /\ last'.errno = ESUCCESS)
    => /\ \A a \in Addr \ (AllData(last'.d.iovs)
                           \cup Range(last'.args.tag_ptr, last'.args.tag_len)) :
             mem'[a] = mem[a]
       /\ \A i \in 1..Len(last'.d.iovs) : Len(last'.d.before[i]) = last'.d.iovs[i].buf_len
       /\ Cardinality(AllData(last'.d.iovs)) <= Len(last'.d.ct)

\* C4, as claimed: encrypt then decrypt with the same session, nonce, AAD, iovecs and
\* tag succeeds and restores the plaintext, in place and of the same length.
C4_AsClaimed ==
    [][ (DecryptAfterEncrypt => PlaintextRestored) /\ LengthPreserved ]_vars

\* C4, amended: the round trip holds when the regions the calls write (the data iovecs
\* and the tag) overlap neither each other nor the regions the calls read (key, nonce,
\* AAD, iovec descriptor array).
C4_RoundTrip ==
    [][ /\ ( ( /\ DecryptAfterEncrypt
               /\ WritesApart(last.args, ciphers[last.args.aead], last.d.iovs) )
             => PlaintextRestored )
        /\ LengthPreserved ]_vars

\* the 17 bytes split 5+12 have been encrypted and decrypted back
C4_Witness ==
    /\ last.op = "aead_decrypt" /\ last.errno = ESUCCESS
    /\ last.args = CallBase
    /\ Len(last.d.iovs) = 2 /\ last.d.iovs[1].buf_len = 5 /\ last.d.iovs[2].buf_len = 12
    /\ last.d.ct # Plaintext
    /\ Bytes(mem, L.data, Len(Plaintext)) = Plaintext

\* C5: aead_decrypt succeeds only when the key, nonce, AAD, ciphertext and tag it is
\* presented are, bit for bit, what one aead_encrypt used and produced.
C5_TamperFailsClosed ==
    (last.op = "aead_decrypt" /\ last.errno = ESUCCESS)
    => [key |-> last.d.key, nonce |-> last.d.nonce, aad |-> last.d.aad,
        ct |-> last.d.ct, tag |-> last.d.tag] \in produced

\* C6: aead_encrypt and aead_decrypt with a declared tag length other than the tag size
\* of the algorithm fail with invalid-argument (unless the handle is invalid or a range
\* is out of bounds) and no tag of that length is written.
C6_TagLengthMustMatch ==
    ( /\ last.op \in {"aead_encrypt", "aead_decrypt"}
      /\ last.args.tag_len # 16
      /\ last.errno \notin {EBADF, EFAULT} )
    => last.errno = EINVAL

\* a range of an aead_open call lies outside guest memory
OpenOutOfBounds(a) ==
    \/ ~ InBounds(a.algorithm_ptr, a.algorithm_len)
    \/ ~ InBounds(a.key_ptr, a.key_len)
    \/ ~ InBounds(a.opened_aead_ptr, 4)

\* a range of an aead_encrypt / aead_decrypt call lies outside guest memory m: the
\* nonce, the AAD, the tag, the descriptor array or a data iovec it describes
CallOutOfBounds(a, m) ==
    \/ ~ InBounds(a.nonce_ptr, a.nonce_len)
    \/ ~ InBounds(a.auth_ptr, a.auth_len)
    \/ ~ InBounds(a.tag_ptr, a.tag_len)
    \/ ~ InBounds(a.data_ptr, IovecSize * a.data_len)
    \/ \E i \in 0..(a.data_len - 1) :
          ~ InBounds(DecU32(m, a.data_ptr + IovecSize * i),
                     DecU32(m, a.data_ptr + IovecSize * i + 4))

\* the key range of the session of handle h lies outside guest memory
KeyOutOfBounds(c, h) == h \in DOMAIN c /\ ~ InBounds(c[h].key_ptr, c[h].key_len)

\* C7, as claimed: every byte the AEAD calls touch lies inside guest memory, and a call
\* with any range out of bounds fails with out-of-bounds.
C7_AsClaimed ==
    [][ /\ (Calls("aead_open") /\ OpenOutOfBounds(last'.args))
              => (last'.errno = EFAULT /\ last'.d.touched \subseteq Addr)
        /\ ( /\ (Calls("aead_encrypt") \/ Calls("aead_decrypt"))
             /\ (CallOutOfBounds(last'.args, mem) \/ KeyOutOfBounds(ciphers, last'.args.aead)) )
              => (last'.errno = EFAULT /\ last'.d.touched \subseteq Addr) ]_vars

\* C7, amended: every byte the AEAD calls touch lies inside guest memory; an encrypt or
\* decrypt with a range out of bounds never succeeds and fails with out-of-bounds unless
\* an earlier check fails first (invalid-handle; invalid-argument for an empty nonce or
\* a tag length outside 1..16); aead_open fails with out-of-bounds when the name is out
\* of bounds, never succeeds when the handle location is, and does not check the key.
C7_MemorySafety ==
    [][ /\ (Calls("aead_open") \/ Calls("aead_encrypt") \/ Calls("aead_decrypt"))
              => last'.d.touched \subseteq Addr
        /\ (Calls("aead_open") /\ ~ InBounds(last'.args.algorithm_ptr, last'.args.algorithm_len))
              => last'.errno = EFAULT
        /\ (Calls("aead_open") /\ ~ InBounds(last'.args.opened_aead_ptr, 4))
              => last'.errno # ESUCCESS
        /\ ( /\ (Calls("aead_encrypt") \/ Calls("aead_decrypt"))
             /\ (CallOutOfBounds(last'.args, mem) \/ KeyOutOfBounds(ciphers, last'.args.aead)) )
              => \/ last'.errno = EFAULT
                 \/ last'.errno = EBADF /\ last'.args.aead \notin DOMAIN ciphers
                 \/ last'.errno = EINVAL /\ ( \/ last'.args.nonce_len = 0
                                             \/ last'.args.tag_len < 1
                                             \/ last'.args.tag_len > 16 ) ]_vars

\* an encrypt over an iovec that runs past the end of memory has failed out-of-bounds,
\* having touched only guest memory
C7_Witness ==
    /\ last.op = "aead_encrypt" /\ last.errno = EFAULT
    /\ last.args.data_ptr = L.iovOob
    /\ last.d.key # << >>
    /\ last.d.touched # {} /\ last.d.touched \subseteq Addr

\* C8: a handle becomes live only by a successful aead_open and dead only by a
\* successful aead_close; aead_encrypt and aead_decrypt leave the registry unchanged.
C8_HandleStateMachine ==
    [][ /\ (DOMAIN ciphers' # DOMAIN ciphers)
              => \/ /\ Calls("aead_open") /\ last'.errno = ESUCCESS
                    /\ DOMAIN ciphers' = (DOMAIN ciphers) \cup {last'.d.ret}
                 \/ /\ Calls("aead_close") /\ last'.errno = ESUCCESS
                    /\ DOMAIN ciphers' = (DOMAIN ciphers) \ {last'.args.aead}
        /\ (Calls("aead_encrypt") \/ Calls("aead_decrypt")) => ciphers' = ciphers ]_vars


\* the table t2 is t with one entry more, at the lowest handle of 0..max that t left free
PushedLowest(t, t2, k, max) ==
    /\ k \in 0..max
    /\ k \notin DOMAIN t
    /\ \A j \in 0..(k - 1) : j \in DOMAIN t
    /\ DOMAIN t2 = (DOMAIN t) \cup {k}
    /\ \A j \in DOMAIN t : t2[j] = t[j]

\* C9: every successful push (by insert_file, preopened_dir or aead_open) returns the
\* lowest handle that was free before it, a handle no live entry holds, so that a value
\* is handed out again only after its entry was removed; the push adds exactly that
\* entry, and it fails with table-exhausted, changing nothing, only when no handle is free.
C9_PushLowestFree ==
    [][ /\ (Calls("insert_file") \/ Calls("preopened_dir")) =>
              IF last'.errno = ESUCCESS
              THEN PushedLowest(table, table', last'.d.ret, MaxFd)
              ELSE /\ last'.errno = EMFILE
                   /\ FreeKeys(table, MaxFd) = {}
                   /\ table' = table
        /\ Calls("insert_file") /\ last'.errno = ESUCCESS =>
              table'[last'.d.ret] = last'.args.entry
        /\ Calls("aead_open") =>
              /\ last'.errno = ESUCCESS =>
                    PushedLowest(ciphers, ciphers', last'.d.ret, MaxAead)
              /\ ciphers' # ciphers =>
                    \E k \in 0..MaxAead : PushedLowest(ciphers, ciphers', k, MaxAead)
              /\ last'.errno = EMFILE =>
                    FreeKeys(ciphers, MaxAead) = {} /\ ciphers' = ciphers
      ]_vars

\* a push filled the hole below a live entry
C9_Witness ==
    /\ last.op = "insert_file"
    /\ last.errno = ESUCCESS
    /\ last.d.ret = 1
    /\ {0, 1, 2} \subseteq DOMAIN table

\* the step installs an entry at exactly the handle h
InsertsAt(h) ==
    \/ (Calls("insert_file_at") \/ Calls("insert_dir_at")) /\ last'.args.fd = h
    \/ (Calls("stdin") \/ Calls("stdout") \/ Calls("stderr")) /\ last'.args.fd = h
    \/ Calls("inherit_stdio") /\ h \in {0, 1, 2}

\* C10: insert_at(h, e) makes e the entry at h, replacing what was there and touching no
\* other handle; the entry at h stays as it is across every step that is neither an
\* insert_at(h, _) nor a remove(h); get(h) returns the entry at h, or invalid-handle
\* when there is none, and never changes the table; remove(h) returns the entry and
\* frees h, or fails with invalid-handle and changes nothing.
C10_InsertAtGetRemove ==
    [][ /\ (Calls("insert_file_at") \/ Calls("insert_dir_at")) =>
              /\ last'.errno = ESUCCESS
              /\ DOMAIN table' = (DOMAIN table) \cup {last'.args.fd}
              /\ table'[last'.args.fd] = last'.args.entry
              /\ \A k \in (DOMAIN table) \ {last'.args.fd} : table'[k] = table[k]
        /\ \A h \in DOMAIN table :
              ~ InsertsAt(h) /\ ~ (Calls("remove") /\ last'.args.fd = h) =>
                  h \in DOMAIN table' /\ table'[h] = table[h]
        /\ Calls("get") =>
              /\ table' = table
              /\ IF last'.args.fd \in DOMAIN table
                 THEN last'.errno = ESUCCESS /\ last'.d.entry = table[last'.args.fd]
                 ELSE last'.errno = EBADF
        /\ Calls("remove") =>
              IF last'.args.fd \in DOMAIN table
              THEN /\ last'.errno = ESUCCESS
                   /\ last'.d.entry = table[last'.args.fd]
                   /\ DOMAIN table' = (DOMAIN table) \ {last'.args.fd}
                   /\ \A k \in DOMAIN table' : table'[k] = table[k]
              ELSE last'.errno = EBADF /\ table' = table
      ]_vars

\* get returned the entry that an insert_at put in the place of another
C10_Witness ==
    /\ last.op = "get"
    /\ last.errno = ESUCCESS
    /\ last.args.fd = 0
    /\ last.d.entry = FileEntryNew(FileCapsREAD, "f2")
    /\ calls = 3


\* the names of the MAC and key-derivation calls
StubOps == {"mac_open", "mac_update", "mac_digest", "mac_close", "hkdf"}

\* C11: mac_open, mac_update, mac_digest, mac_close and hkdf fail with not-implemented
\* whatever their arguments and whatever the state, and leave the resource table, the
\* cipher-session registry and guest memory as they were.
C11_StubsNotImplemented ==
    [][ (\E op \in StubOps : Calls(op))
        => /\ last'.errno = ENOSYS
           /\ table' = table
           /\ ciphers' = ciphers
           /\ mem' = mem ]_vars

\* mac_open was refused with not-implemented while a cipher session and a table entry
\* were live, for arguments that aead_open accepts
C11_Witness ==
    /\ last.op = "mac_open" /\ last.errno = ENOSYS
    /\ last.args = OpenBase
    /\ DOMAIN ciphers # {} /\ DOMAIN table # {}


\* C12: a preopened directory starts with all directory and file rights; a file opened
\* beneath a directory gets rights inside the directory's file rights and inside the
\* requested ones; a directory opened beneath it gets directory rights and file rights
\* inside its parent's and inside the requested ones; the opening changes no other
\* entry, so rights only narrow along a chain of derivations.
C12_RightsOnlyNarrow ==
    [][ /\ (Calls("preopened_dir") /\ last'.errno = ESUCCESS) =>
              /\ table'[last'.d.ret].caps = DirCapsAll
              /\ table'[last'.d.ret].file_caps = FileCapsAll
        /\ (Calls("path_open_file") /\ last'.errno = ESUCCESS) =>
              /\ last'.d.ret \notin DOMAIN table
              /\ table'[last'.d.ret].kind = "file"
              /\ table'[last'.d.ret].caps \subseteq
                    (table[last'.args.fd].file_caps \cap last'.args.desired)
              /\ \A k \in DOMAIN table : table'[k] = table[k]
        /\ (Calls("path_open_dir") /\ last'.errno = ESUCCESS) =>
              /\ last'.d.ret \notin DOMAIN table
              /\ table'[last'.d.ret].kind = "dir"
              /\ table'[last'.d.ret].caps \subseteq
                    (table[last'.args.fd].caps \cap last'.args.desired)
              /\ table'[last'.d.ret].file_caps \subseteq
                    (table[last'.args.fd].file_caps \cap last'.args.desired_file)
              /\ \A k \in DOMAIN table : table'[k] = table[k]
        /\ ((Calls("path_open_file") \/ Calls("path_open_dir")) /\ last'.errno # ESUCCESS) =>
              table' = table
      ]_vars

\* a file was opened with all rights requested beneath a directory that was itself
\* opened, with fewer rights, beneath a preopened one: the file has the fewer rights
C12_Witness ==
    /\ last.op = "path_open_file" /\ last.errno = ESUCCESS
    /\ last.args.desired = FileCapsAll
    /\ table[last.d.ret].caps = FileCapsREAD
    /\ table[last.args.fd].file_caps = FileCapsREAD
    /\ \E k \in DOMAIN table : table[k].kind = "dir" /\ table[k].file_caps = FileCapsAll


\* the keystream byte at position 0 of an engine made from what guest memory m holds at
\* the key location of session ce and at the nonce location of the call a
FirstKeyStream(m, ce, a) ==
    KeyStream(KeyStreamOf(Bytes(m, ce.key_ptr, ce.key_len),
                          Bytes(m, a.nonce_ptr, a.nonce_len)), 0)

\* C13: a session records the key's (offset, length) and no key bytes; each aead_encrypt
\* and aead_decrypt on a live session fails with out-of-bounds when that range does not
\* fit guest memory and otherwise uses the bytes the range holds when the call is made:
\* they are the key the call read, and the first data byte is transformed with them.
C13_KeyReadAtEachUse ==
    [][ /\ (Calls("aead_open") /\ last'.errno = ESUCCESS) =>
              /\ DOMAIN ciphers'[last'.d.ret] = {"cipher", "key_ptr", "key_len", "spec"}
              /\ ciphers'[last'.d.ret].key_ptr = last'.args.key_ptr
              /\ ciphers'[last'.d.ret].key_len = last'.args.key_len
        /\ ( /\ (Calls("aead_encrypt") \/ Calls("aead_decrypt"))
             /\ last'.args.aead \in DOMAIN ciphers ) =>
              LET ce == ciphers[last'.args.aead]
              IN  IF ~ InBounds(ce.key_ptr, ce.key_len)
                  THEN last'.errno = EFAULT /\ mem' = mem
                  ELSE /\ last'.d.key = Bytes(mem, ce.key_ptr, ce.key_len)
                       /\ ( /\ last'.errno = ESUCCESS
                            /\ WritesApart(last'.args, ce, last'.d.iovs)
                            /\ last'.d.iovs # << >>
                            /\ last'.d.iovs[1].buf_len > 0 ) =>
                              mem'[last'.d.iovs[1].buf] =
                                  Xor(mem[last'.d.iovs[1].buf], FirstKeyStream(mem, ce, last'.args))
      ]_vars

\* the guest changed the key between an encrypt and the decrypt of what it produced:
\* the decrypt read the new key bytes and did not authenticate
C13_Witness ==
    /\ last.op = "aead_decrypt" /\ last.errno = EINVAL /\ last.stage = "finalize"
    /\ last.d.key = Bytes(mem, L.key, A128GCM_key_size)
    /\ last.d.key # Bytes(InitMem, L.key, A128GCM_key_size)
    /\ \E p \in produced :
          /\ p.key = Bytes(InitMem, L.key, A128GCM_key_size)
          /\ p.nonce = last.d.nonce /\ p.aad = last.d.aad
          /\ p.ct = last.d.ct /\ p.tag = last.d.tag


\* the iovec descriptors as guest memory m holds them for the call a
DescribedIovs(m, a) ==
    [i \in 1..a.data_len |->
        [buf     |-> DecU32(m, a.data_ptr + IovecSize * (i - 1)),
         buf_len |-> DecU32(m, a.data_ptr + IovecSize * (i - 1) + 4)]]

\* the number of bytes in the first n iovecs
RECURSIVE BytesUpTo(_, _)
BytesUpTo(iovs, n) == IF n = 0 THEN 0 ELSE iovs[n].buf_len + BytesUpTo(iovs, n - 1)

\* the addresses of the iovecs from the i-th on, byte by byte in list order
RECURSIVE AddrsInOrder(_, _)
AddrsInOrder(iovs, i) ==
    IF i > Len(iovs) THEN << >>
    ELSE [j \in 1..iovs[i].buf_len |-> iovs[i].buf + j - 1] \o AddrsInOrder(iovs, i + 1)

\* the call got as far as the transform loop
LoopRan(r) == r.stage \in {"get_tag", "enc_tag", "finalize", "done"}

\* the chunks ch tile the iovecs in order: byte for byte the iovecs' addresses, at
\* consecutive stream positions, at most bs bytes each, never across two iovecs, and
\* shorter than bs only at the end of an iovec
ChunksInOrder(ch, iovs, bs) ==
    LET ends == { BytesUpTo(iovs, n) : n \in 1..Len(iovs) }
    IN  /\ AddrsInOrder([k \in 1..Len(ch) |-> [buf |-> ch[k].ptr, buf_len |-> ch[k].len]], 1)
              = AddrsInOrder(iovs, 1)
        /\ \A k \in 1..Len(ch) :
              /\ ch[k].len >= 1 /\ ch[k].len <= bs
              /\ ch[k].pos = IF k = 1 THEN 0 ELSE ch[k - 1].pos + ch[k - 1].len
              /\ ch[k].len < bs => (ch[k].pos + ch[k].len) \in ends
              /\ \A e \in ends : ~ (ch[k].pos < e /\ e < ch[k].pos + ch[k].len)

\* after the call every data byte is its old value transformed at its position in the
\* stream, but for the bytes that the tag, written last, has covered
TransformedInOrder(m, m2, r, a, iovs) ==
    LET ks == KeyStreamOf(r.d.key, r.d.nonce)
        tagR == IF r.errno = ESUCCESS /\ r.op = "aead_encrypt"
                THEN Range(a.tag_ptr, a.tag_len) ELSE {}
    IN  \A i \in 1..Len(iovs) : \A j \in 0..(iovs[i].buf_len - 1) :
           LET addr == iovs[i].buf + j
           IN  IF addr \in tagR
               THEN m2[addr] = r.d.tag[addr - a.tag_ptr + 1]
               ELSE m2[addr] = Xor(m[addr], KeyStream(ks, BytesUpTo(iovs, i - 1) + j))

\* C14: an AAD range that cannot be read fails the call before any data byte changes;
\* when the loop runs, the update calls take the iovecs in list order in consecutive
\* chunks of at most 16 bytes (shorter only at the end of an iovec), each byte once and at
\* consecutive stream positions; each byte is overwritten by its transform; the tag covers
\* the whole stream and is written after the last chunk, over data bytes if it overlaps.
C14_InOrderInPlace ==
    [][ (Calls("aead_encrypt") \/ Calls("aead_decrypt")) =>
          LET a    == last'.args
              iovs == DescribedIovs(mem, a)
          IN  /\ ~ InBounds(a.auth_ptr, a.auth_len) => (last'.errno # ESUCCESS /\ mem' = mem)
              /\ ~ LoopRan(last') => last'.d.chunks = << >>
              /\ LoopRan(last') =>
                    /\ last'.d.iovs = iovs
                    /\ last'.d.aad = Bytes(mem, a.auth_ptr, a.auth_len)
                    /\ ChunksInOrder(last'.d.chunks, iovs, A128GCM_block_size)
                    /\ Len(last'.d.ct) = BytesUpTo(iovs, Len(iovs))
                    /\ (\A i, j \in 1..Len(iovs) :
                           i # j => DataRange(iovs, i) \cap DataRange(iovs, j) = {})
                          => TransformedInOrder(mem, mem', last', a, iovs)
                    /\ (last'.op = "aead_encrypt" /\ last'.errno = ESUCCESS) =>
                          /\ Bytes(mem', a.tag_ptr, a.tag_len) = last'.d.tag
                          /\ \E p \in produced' : p.ct = last'.d.ct /\ p.tag = last'.d.tag
      ]_vars

\* 17 bytes in one iovec were encrypted as a chunk of 16 bytes and a chunk of one
C14_Witness ==
    /\ last.op = "aead_encrypt" /\ last.errno = ESUCCESS
    /\ Len(last.d.iovs) = 1
    /\ Len(last.d.chunks) = 2
    /\ last.d.chunks[1].len = A128GCM_block_size
    /\ last.d.chunks[2] = [ptr |-> L.data + A128GCM_block_size, len |-> 1,
                           pos |-> A128GCM_block_size]


\* the tag presented with the call does not authenticate what the call fed the engine:
\* no encryption tagged that key, nonce, AAD and ciphertext, or its tag begins otherwise
NotAuthentic(log, r) ==
    LET tuple == [key |-> r.d.key, nonce |-> r.d.nonce, aad |-> r.d.aad, ct |-> r.d.ct]
    IN  \/ TagIndex(log, tuple) = 0
        \/ r.d.tag # SubSeq(FullTag(TagIndex(log, tuple)), 1, Len(r.d.tag))

\* C15: an aead_decrypt that reaches finalize with a tag that does not authenticate
\* returns invalid-argument and leaves in every data iovec the transformed bytes, not
\* the ciphertext it was given and not zeroes; nothing outside the data iovecs changes.
C15_FailedDecryptLeavesTransform ==
    [][ (Calls("aead_decrypt") /\ LoopRan(last') /\ NotAuthentic(tagged, last')) =>
          LET iovs == last'.d.iovs
          IN  /\ last'.errno = EINVAL
              /\ \A addr \in Addr \ AllData(iovs) : mem'[addr] = mem[addr]
              /\ (\A i, j \in 1..Len(iovs) :
                     i # j => DataRange(iovs, i) \cap DataRange(iovs, j) = {})
                    => TransformedInOrder(mem, mem', last', last'.args, iovs)
      ]_vars

\* a decrypt of 17 bytes failed at finalize and left other bytes than it was given
C15_Witness ==
    /\ last.op = "aead_decrypt" /\ last.errno = EINVAL /\ last.stage = "finalize"
    /\ last.args = CallBase
    /\ Len(last.d.ct) = Len(Plaintext)
    /\ Bytes(mem, L.data, Len(Plaintext)) # last.d.ct
    /\ \E k \in 1..Len(Plaintext) : mem[L.data + k - 1] # 0


\* the session's key length is the key size of its size specification, which is the
\* one registered with its algorithm
SessionWellFormed(ce) ==
    /\ ce.key_len = ce.spec.key_size
    /\ \E i \in 1..Len(IMPLEMENTED_CIPHERS) :
          /\ IMPLEMENTED_CIPHERS[i].constructor = ce.cipher
          /\ IMPLEMENTED_CIPHERS[i].spec = ce.spec

\* C16: after every step each live session has a key length equal to the key size of
\* its size specification (16), the specification registered for its algorithm; a
\* session that stays live keeps both; aead_open with another key length adds none.
C16_KeyLengthInvariant ==
    [][ /\ \A h \in DOMAIN ciphers' :
              SessionWellFormed(ciphers'[h]) /\ ciphers'[h].key_len = 16
        /\ \A h \in (DOMAIN ciphers) \cap (DOMAIN ciphers') :
              /\ ciphers'[h].key_len = ciphers[h].key_len
              /\ ciphers'[h].spec = ciphers[h].spec
        /\ (Calls("aead_open") /\ last'.args.key_len # 16) => ciphers' = ciphers
      ]_vars

\* a session is live and well formed after an encrypt and a decrypt have used it
C16_Witness ==
    /\ last.op = "aead_decrypt" /\ last.errno = ESUCCESS
    /\ last.args.aead \in DOMAIN ciphers
    /\ SessionWellFormed(ciphers[last.args.aead])
    /\ ciphers[last.args.aead].key_len = A128GCM_key_size


\* one of the checks made before the transform loop fails for the call op(a) in
\* registry c and guest memory m: the handle lookup, the bounds of the key, the nonce
\* and the AAD, the construction of the engine (an empty nonce), for a decrypt the
\* bounds of the tag, and the decoding of the iovec descriptors
FailsBeforeData(op, a, c, m) ==
    \/ a.aead \notin DOMAIN c
    \/ KeyOutOfBounds(c, a.aead)
    \/ ~ InBounds(a.nonce_ptr, a.nonce_len)
    \/ a.nonce_len = 0
    \/ ~ InBounds(a.auth_ptr, a.auth_len)
    \/ op = "aead_decrypt" /\ ~ InBounds(a.tag_ptr, a.tag_len)
    \/ ~ InBounds(a.data_ptr, IovecSize * a.data_len)
    \/ \E i \in 1..a.data_len :
          ~ InBounds(DescribedIovs(m, a)[i].buf, DescribedIovs(m, a)[i].buf_len)

\* C17: an aead_encrypt or aead_decrypt for which one of the checks before the data
\* fails does not succeed and leaves guest memory byte for byte unchanged; a call that
\* fails with guest memory changed is an encrypt that failed at its tag (length or
\* destination) or a decrypt that failed at finalize; an encrypt whose only fault is
\* an out-of-bounds tag destination fails out-of-bounds with the data transformed.
C17_ChecksBeforeData ==
    [][ (Calls("aead_encrypt") \/ Calls("aead_decrypt")) =>
          LET a == last'.args
          IN  /\ FailsBeforeData(last'.op, a, ciphers, mem) =>
                    (last'.errno # ESUCCESS /\ mem' = mem)
              /\ (last'.errno # ESUCCESS /\ mem' # mem) =>
                    \/ /\ last'.op = "aead_encrypt"
                       /\ (a.tag_len < 1 \/ a.tag_len > 16 \/ ~ InBounds(a.tag_ptr, a.tag_len))
                    \/ /\ last'.op = "aead_decrypt"
                       /\ last'.errno = EINVAL
                       /\ NotAuthentic(tagged, last')
              /\ ( /\ last'.op = "aead_encrypt"
                   /\ ~ FailsBeforeData(last'.op, a, ciphers, mem)
                   /\ a.tag_len >= 1 /\ a.tag_len <= 16
                   /\ ~ InBounds(a.tag_ptr, a.tag_len) ) =>
                    /\ last'.errno = EFAULT
                    /\ (\A i, j \in 1..Len(last'.d.iovs) :
                           i # j => DataRange(last'.d.iovs, i) \cap DataRange(last'.d.iovs, j) = {})
                          => TransformedInOrder(mem, mem', last', a, last'.d.iovs)
      ]_vars

\* a decrypt on a live session failed at the bounds of its tag, after key, nonce and
\* AAD were read, and the data is still what the guest put there
C17_Witness ==
    /\ last.op = "aead_decrypt" /\ last.errno = EFAULT
    /\ last.args.aead \in DOMAIN ciphers
    /\ ~ InBounds(last.args.tag_ptr, last.args.tag_len)
    /\ Len(last.d.nonce) = A128GCM_nonce_size
    /\ Bytes(mem, L.data, Len(Plaintext)) = Plaintext


\* the step installs standard streams
StdioCall == Calls("stdin") \/ Calls("stdout") \/ Calls("stderr") \/ Calls("inherit_stdio")

\* the standard stream at handle h has exactly the base rights caps
StreamAt(t, h, caps) == h \in DOMAIN t /\ t[h].kind = "file" /\ t[h].caps = caps

\* C18: whatever the order of the builder calls, stdin, stdout and stderr leave their
\* stream at handle 0, 1 and 2 with read, write and write rights (inherit_stdio all
\* three); a standard-stream insert replaces no directory entry, and a preopened
\* directory is pushed at a handle other than 0, 1, 2, so that at build() every
\* preopened directory added is still in the table.
C18_BuilderKeepsReservedSlots ==
    [][ /\ Calls("stdin")  => StreamAt(table', 0, FileCapsREAD)
        /\ Calls("stdout") => StreamAt(table', 1, FileCapsWRITE)
        /\ Calls("stderr") => StreamAt(table', 2, FileCapsWRITE)
        /\ Calls("inherit_stdio") =>
              /\ StreamAt(table', 0, FileCapsREAD)
              /\ StreamAt(table', 1, FileCapsWRITE)
              /\ StreamAt(table', 2, FileCapsWRITE)
        /\ StdioCall =>
              \A h \in DOMAIN table :
                  table[h].kind = "dir" => (h \in DOMAIN table' /\ table'[h] = table[h])
        /\ (Calls("preopened_dir") /\ last'.errno = ESUCCESS) =>
              /\ last'.d.ret \notin {0, 1, 2}
              /\ table'[last'.d.ret].kind = "dir"
      ]_vars


\* what an encrypt and a decrypt with arguments a return and leave in guest memory,
\* from registry c, guest memory m and the log of tagged tuples log
OutcomeOf(c, m, log, a) ==
    LET e == crypto_aead_encrypt(c, m, log, a.aead, a.nonce_ptr, a.nonce_len, a.auth_ptr,
                                 a.auth_len, a.data_ptr, a.data_len, a.tag_ptr, a.tag_len)
        d == crypto_aead_decrypt(c, m, log, a.aead, a.nonce_ptr, a.nonce_len, a.auth_ptr,
                                 a.auth_len, a.data_ptr, a.data_len, a.tag_ptr, a.tag_len)
    IN  << e.errno, e.mem, e.d, d.errno, d.mem, d.d >>

\* C19: a successful aead_close(h) removes the session at h and nothing else: every
\* other session keeps its handle and its fields, guest memory is unchanged, and an
\* encrypt or decrypt on another handle returns and writes after the close what it
\* would have before it.
C19_CloseFrame ==
    [][ (Calls("aead_close") /\ last'.errno = ESUCCESS) =>
          LET h == last'.args.aead
          IN  /\ h \in DOMAIN ciphers
              /\ DOMAIN ciphers' = (DOMAIN ciphers) \ {h}
              /\ \A k \in DOMAIN ciphers' : ciphers'[k] = ciphers[k]
              /\ mem' = mem
              /\ \A a \in CallArgs :
                    a.aead # h =>
                        OutcomeOf(ciphers', mem', tagged', a) = OutcomeOf(ciphers, mem, tagged, a)
      ]_vars

\* one of two live sessions was closed and the other is still live
C19_Witness ==
    /\ last.op = "aead_close" /\ last.errno = ESUCCESS
    /\ last.args.aead \notin DOMAIN ciphers
    /\ DOMAIN ciphers # {}
    /\ \A k \in DOMAIN ciphers : k \in opened

====
